---- MODULE Spec2Model ----
(***************************************************************************)
(* Model of the "skip" rewriting proxy of scion-apps (skip/main.go):       *)
(* the demunge codec, the response rewriting (replaceMunged) and the       *)
(* request handler proxyHandler.ServeHTTP.                                 *)
(*                                                                         *)
(* A Go string / []byte is a sequence of one-character strings.            *)
(*                                                                         *)
(* One invocation of the handler is modelled: invocations share no mutable *)
(* state (the handler holds only the transport).  Reads of the response    *)
(* body and writes to the ResponseWriter are taken to succeed; the code    *)
(* discards their errors.  Header names are canonical MIME keys, as the    *)
(* server and the transport produce them.                                  *)
(***************************************************************************)
EXTENDS Integers, Sequences, FiniteSets, TLC

VARIABLES
  client,      \* the request as the client sent it (history variable)
  pc,          \* position of the handler in ServeHTTP
  req,         \* *http.Request: Host, URL.Scheme, URL.Host, Header
  hostMunged,  \* local of ServeHTTP
  host,        \* local of ServeHTTP
  resp,        \* <<>> for nil, else <<the *http.Response>>
  err,         \* <<>> for nil, else <<err.Error()>>
  w,           \* http.ResponseWriter: Header, Status written (0: none), Body,
               \* and the log of the calls made on it, in order
  calls,       \* number of transport.RoundTrip calls
  seen,        \* the requests handed to the transport, as they were at the call
  deferred,    \* is resp.Body.Close() registered to run at return
  closed       \* number of resp.Body.Close() calls

vars == <<client, pc, req, hostMunged, host, resp, err, w, calls, seen, deferred, closed>>

----------------------------------------------------------------------------
(* Bounds of the explored input space.                                     *)

\* longest hostname enumerated exhaustively over HostAlphabet
MaxLen == 4
\* how many times the ".scion" marker is appended to an enumerated hostname
MaxMarkers == 2

----------------------------------------------------------------------------
(* Character classes and the string functions of the Go library the code   *)
(* calls.                                                                  *)

Digit == {"0", "1", "2", "3", "4", "5", "6", "7", "8", "9"}

HexLetter == {"a", "b", "c", "d", "e", "f", "A", "B", "C", "D", "E", "F"}

Letter ==
  {"a", "b", "c", "d", "e", "f", "g", "h", "i", "j", "k", "l", "m",
   "n", "o", "p", "q", "r", "s", "t", "u", "v", "w", "x", "y", "z",
   "A", "B", "C", "D", "E", "F", "G", "H", "I", "J", "K", "L", "M",
   "N", "O", "P", "Q", "R", "S", "T", "U", "V", "W", "X", "Y", "Z"}

\* the value of a decimal digit character
DigitVal(c) ==
  CASE c = "0" -> 0 [] c = "1" -> 1 [] c = "2" -> 2 [] c = "3" -> 3
    [] c = "4" -> 4 [] c = "5" -> 5 [] c = "6" -> 6 [] c = "7" -> 7
    [] c = "8" -> 8 [] c = "9" -> 9

\* does p occur in s starting at (1-based) position i
HasAt(s, i, p) ==
  /\ i >= 1
  /\ i + Len(p) - 1 <= Len(s)
  /\ SubSeq(s, i, i + Len(p) - 1) = p

\* strings.HasPrefix
HasPrefix(s, p) == HasAt(s, 1, p)

\* strings.HasSuffix
HasSuffix(s, x) == Len(s) >= Len(x) /\ HasAt(s, Len(s) - Len(x) + 1, x)

RECURSIVE TrimAllSuffix(_, _)
\* a TrimSuffix that keeps trimming while the suffix is present
TrimAllSuffix(s, x) ==
  IF x # <<>> /\ HasSuffix(s, x)
    THEN TrimAllSuffix(SubSeq(s, 1, Len(s) - Len(x)), x)
    ELSE s

\* strings.TrimSuffix: s without the trailing x, once; s itself otherwise
TrimSuffix(s, x) ==
  IF HasSuffix(s, x) THEN SubSeq(s, 1, Len(s) - Len(x)) ELSE s

\* strings.ReplaceAll for one-character old and new
ReplaceAllChar(s, old, new) ==
  [i \in 1..Len(s) |-> IF s[i] = old THEN new ELSE s[i]]

----------------------------------------------------------------------------
(* The codec: mungedScionAddr and demunge.                                 *)

\* the literal ".scion" trimmed by demunge
scionSuffix == <<".", "s", "c", "i", "o", "n">>

\* submatch indices
mungedScionAddrIAIndex == 1
mungedScionAddrASIndex == 2
mungedScionAddrHostIndex == 3

\* position of the first c in s at or after position from, 0 when there is none
IndexFrom(s, c, from) ==
  IF \E i \in from..Len(s) : s[i] = c
    THEN CHOOSE i \in from..Len(s) : s[i] = c /\ \A j \in from..(i - 1) : s[j] # c
    ELSE 0

\* mungedScionAddr.FindStringSubmatch for ^(\d+)-([_\dA-Fa-f]+)-(.*)$ :
\* <<>> (nil) when the hostname does not match, else the whole match followed
\* by the three submatches.  Neither \d nor [_\dA-Fa-f] admits '-', so the
\* first group ends at the first '-' and the second at the next one; '.'
\* admits every character but a line feed.
mungedScionAddr(h) ==
  LET i == IndexFrom(h, "-", 1)
      j == IF i = 0 THEN 0 ELSE IndexFrom(h, "-", i + 1)
  IN  IF /\ i > 1
         /\ j > i + 1
         /\ \A k \in 1..(i - 1) : h[k] \in Digit
         /\ \A k \in (i + 1)..(j - 1) : h[k] \in Digit \cup HexLetter \cup {"_"}
         /\ \A k \in (j + 1)..Len(h) : h[k] # "\n"
        THEN <<h, SubSeq(h, 1, i - 1), SubSeq(h, i + 1, j - 1),
               SubSeq(h, j + 1, Len(h))>>
        ELSE <<>>

\* demunge: the bracketed address for a matching hostname, the hostname
\* without a trailing ".scion" otherwise
demunge(h) ==
  LET parts == mungedScionAddr(h)
  IN  IF parts # <<>>
        THEN <<"[">> \o parts[mungedScionAddrIAIndex + 1] \o <<"-">>
               \o ReplaceAllChar(parts[mungedScionAddrASIndex + 1], "_", ":")
               \o <<",">> \o parts[mungedScionAddrHostIndex + 1] \o <<"]">>
        ELSE TrimSuffix(h, scionSuffix)

----------------------------------------------------------------------------
(* The rewriting: replaceMunged, i.e. regexp.ReplaceAll of the pattern     *)
(* http(s)?://<QuoteMeta(host)> with the template "http://"+hostMunged.    *)

httpScheme == <<"h", "t", "t", "p", ":", "/", "/">>

httpsScheme == <<"h", "t", "t", "p", "s", ":", "/", "/">>

\* the characters a template variable name is made of (regexp's extract)
NameChar == Letter \cup Digit \cup {"_"}

\* length of the longest prefix of str made of name characters
NameLen(str) ==
  IF \E i \in 1..Len(str) : str[i] \notin NameChar
    THEN (CHOOSE i \in 1..Len(str) :
            str[i] \notin NameChar /\ \A j \in 1..(i - 1) : str[j] \in NameChar) - 1
    ELSE Len(str)

RECURSIVE ParseNum(_)
\* the number a sequence of decimal digits denotes
ParseNum(name) ==
  IF name = <<>> THEN 0
  ELSE 10 * ParseNum(SubSeq(name, 1, Len(name) - 1)) + DigitVal(name[Len(name)])

\* regexp's extract: the variable reference at the start of str (the text
\* after a '$'): name or {name}; num is the submatch index, -1 for a name
\* that is no number or has a leading zero
extract(str) ==
  LET brace == str # <<>> /\ str[1] = "{"
      body == IF brace THEN Tail(str) ELSE str
      i == NameLen(body)
      name == SubSeq(body, 1, i)
      end == IF brace THEN i + 1 ELSE i
  IN  IF str = <<>> \/ i = 0 \/ (brace /\ (i >= Len(body) \/ body[i + 1] # "}"))
        THEN [ok |-> FALSE, num |-> -1, rest |-> str]
        ELSE [ok |-> TRUE,
              num |-> IF (\A k \in 1..i : name[k] \in Digit)
                         /\ ~(name[1] = "0" /\ i > 1)
                        THEN ParseNum(name) ELSE -1,
              rest |-> SubSeq(body, end + 1, Len(body))]

RECURSIVE expand(_, _)
\* regexp's expand: the template with $$ as '$', $0 as the whole match, $1 as
\* the text of submatch 1, any other well-formed reference as nothing (the
\* pattern has one unnamed group) and a malformed '$' as itself.
\* match = <<whole match, text of submatch 1>>
expand(template, match) ==
  IF template = <<>> THEN <<>>
  ELSE IF Head(template) # "$"
    THEN <<Head(template)>> \o expand(Tail(template), match)
  ELSE LET after == Tail(template)
           x == extract(after)
       IN  IF after # <<>> /\ Head(after) = "$"
             THEN <<"$">> \o expand(Tail(after), match)
           ELSE IF ~x.ok
             THEN <<"$">> \o expand(after, match)
           ELSE (IF x.num \in {0, 1} THEN match[x.num + 1] ELSE <<>>)
                  \o expand(x.rest, match)

\* the match of reOriginal that starts at position i of s: <<>> when there is
\* none, else <<whole match, text of submatch 1>>
reOriginal(s, i, h) ==
  IF HasAt(s, i, httpsScheme \o h) THEN <<httpsScheme \o h, <<"s">>>>
  ELSE IF HasAt(s, i, httpScheme \o h) THEN <<httpScheme \o h, <<>>>>
  ELSE <<>>

RECURSIVE ReplaceAll(_, _, _, _)
\* regexp.ReplaceAll from position i on: the leftmost match is replaced by
\* the expanded template and the scan goes on behind it
ReplaceAll(s, i, h, repl) ==
  IF i > Len(s) THEN <<>>
  ELSE LET m == reOriginal(s, i, h)
       IN  IF m # <<>>
             THEN expand(repl, m) \o ReplaceAll(s, i + Len(m[1]), h, repl)
             ELSE <<s[i]>> \o ReplaceAll(s, i + 1, h, repl)

\* replaceMunged
replaceMunged(s, h, hm) == ReplaceAll(s, 1, h, httpScheme \o hm)

----------------------------------------------------------------------------
(* http.Header: a function from the (canonical) header names to the list   *)
(* of values of each name; no value means the header is absent.            *)

ReqNames == {"Accept", "Accept-Encoding"}

RespNames ==
  {"Content-Length", "Content-Type", "Location", "Set-Cookie",
   "X-Content-Type-Options"}

\* Header.Get: the first value of the name, "" when it has none
Get(h, k) == IF h[k] = <<>> THEN <<>> ELSE h[k][1]

\* Header.Add
Add(h, k, v) == [h EXCEPT ![k] = Append(@, v)]

\* Header.Set
Set(h, k, v) == [h EXCEPT ![k] = <<v>>]

\* Header.Del
Del(h, k) == [h EXCEPT ![k] = <<>>]

EmptyHeader == [k \in RespNames |-> <<>>]

----------------------------------------------------------------------------
(* Text constants.                                                         *)

textHtml == <<"t", "e", "x", "t", "/", "h", "t", "m", "l">>

textHtmlUtf8 ==
  textHtml \o <<";", " ", "c", "h", "a", "r", "s", "e", "t", "=",
                "u", "t", "f", "-", "8">>

textPlainUtf8 ==
  <<"t", "e", "x", "t", "/", "p", "l", "a", "i", "n", ";", " ",
    "c", "h", "a", "r", "s", "e", "t", "=", "u", "t", "f", "-", "8">>

applicationJson ==
  <<"a", "p", "p", "l", "i", "c", "a", "t", "i", "o", "n", "/",
    "j", "s", "o", "n">>

nosniff == <<"n", "o", "s", "n", "i", "f", "f">>

gzip == <<"g", "z", "i", "p">>

StatusServiceUnavailable == 503

DigitChar(n) ==
  CASE n = 0 -> "0" [] n = 1 -> "1" [] n = 2 -> "2" [] n = 3 -> "3"
    [] n = 4 -> "4" [] n = 5 -> "5" [] n = 6 -> "6" [] n = 7 -> "7"
    [] n = 8 -> "8" [] n = 9 -> "9"

RECURSIVE Itoa(_)
\* the decimal rendering of a natural number
Itoa(n) == IF n < 10 THEN <<DigitChar(n)>> ELSE Itoa(n \div 10) \o <<DigitChar(n % 10)>>

----------------------------------------------------------------------------
(* The environment: the requests the server hands to the handler and the   *)
(* outcomes of the transport.                                              *)

HostAlphabet == {"1", "a", "g", "_", "-", "."}

RECURSIVE WithMarkers(_, _)
\* hostname s followed by n ".scion" markers
WithMarkers(s, n) == IF n = 0 THEN s ELSE WithMarkers(s, n - 1) \o scionSuffix

\* the hostname of the scenario, without the marker: 1-ff00_0_110-192.0.2.1
scenarioHost ==
  <<"1", "-", "f", "f", "0", "0", "_", "0", "_", "1", "1", "0", "-",
    "1", "9", "2", ".", "0", ".", "2", ".", "1">>

\* the hostnames of the codec's exploration: every string over HostAlphabet
\* of at most MaxLen characters and the scenario's, each with 0..MaxMarkers
\* markers appended
CodecHosts ==
  {WithMarkers(s, n) :
     s \in (UNION {[1..l -> HostAlphabet] : l \in 0..MaxLen}) \cup {scenarioHost},
     n \in 0..MaxMarkers}

\* the hostnames of the handler's exploration: a.scion, a, 1-f_0-h.scion,
\* 1-f_0-h, h.scion and a$1.scion
ProxyHosts ==
  {<<"a">> \o scionSuffix, <<"a">>,
   <<"1", "-", "f", "_", "0", "-", "h">> \o scionSuffix,
   <<"1", "-", "f", "_", "0", "-", "h">>,
   <<"h">> \o scionSuffix,
   <<"a", "$", "1">> \o scionSuffix}

\* a request as the server hands it over: origin-form (no scheme, no URL
\* host) or absolute-form request target, with or without Accept-Encoding
Requests(hosts) ==
  {[Host |-> h,
    URL |-> IF abs THEN [Scheme |-> "http", Host |-> h]
                   ELSE [Scheme |-> "", Host |-> <<>>],
    Header |-> [k \in ReqNames |->
                  IF k = "Accept-Encoding" /\ ae THEN <<gzip>> ELSE <<>>]] :
     h \in hosts, abs \in BOOLEAN, ae \in BOOLEAN}

\* header values and bodies an upstream server addressed as h may send
UpstreamTexts(h) ==
  {<<"/", "p">>,
   httpsScheme \o h \o <<"/", "p">>,
   httpScheme \o h,
   httpsScheme \o <<"o", "/", "?", "u", "=">> \o httpScheme \o h \o <<"/">>,
   httpScheme \o httpsScheme \o h \o <<" ">> \o httpScheme \o h}

UpstreamResponses(h) ==
  {[StatusCode |-> st,
    Header |-> [k \in RespNames |->
                  CASE k = "Content-Type" -> ct
                    [] k = "Content-Length" ->
                         IF cl THEN <<Itoa(Len(b))>> ELSE <<>>
                    [] k = "Location" -> loc
                    [] k = "Set-Cookie" -> ck
                    [] OTHER -> <<>>],
    Body |-> b] :
     st \in {200, 302},
     ct \in {<<>>, <<textHtml>>, <<textHtmlUtf8>>, <<applicationJson>>},
     cl \in BOOLEAN,
     loc \in {<<>>} \cup {<<v>> : v \in UpstreamTexts(h)},
     ck \in {<<>>, <<<<"k", "=", "1">>, <<"u", "=">> \o httpsScheme \o h>>},
     b \in {<<>>} \cup UpstreamTexts(h)}

TransportErrors ==
  {<<"n", "o", " ", "p", "a", "t", "h">>, <<"E", "O", "F">>}

----------------------------------------------------------------------------
(* proxyHandler.ServeHTTP, one action per statement.                       *)

InitHandler ==
  /\ pc = "start"
  /\ hostMunged = <<>>
  /\ host = <<>>
  /\ resp = <<>>
  /\ err = <<>>
  /\ w = [Header |-> EmptyHeader, Status |-> 0, Body |-> <<>>, log |-> <<>>]
  /\ calls = 0
  /\ seen = <<>>
  /\ deferred = FALSE
  /\ closed = 0

Init == req \in Requests(ProxyHosts) /\ client = req /\ InitHandler

\* hostMunged := req.Host; host := demunge(req.Host); req.Host = host;
\* req.URL.Scheme = "https"; req.URL.Host = host
Resolve ==
  /\ pc = "start"
  /\ hostMunged' = req.Host
  /\ host' = demunge(req.Host)
  /\ req' = [req EXCEPT !.Host = demunge(req.Host),
                        !.URL = [Scheme |-> "https", Host |-> demunge(req.Host)]]
  /\ pc' = "strip"
  /\ UNCHANGED <<client, resp, err, w, calls, seen, deferred, closed>>

\* a handler that leaves Accept-Encoding in place
KeepAcceptEncoding ==
  /\ pc = "strip"
  /\ pc' = "roundtrip"
  /\ UNCHANGED <<client, req, hostMunged, host, resp, err, w, calls, seen, deferred, closed>>

\* req.Header.Del("Accept-Encoding")
StripAcceptEncoding ==
  /\ pc = "strip"
  /\ req' = [req EXCEPT !.Header = Del(@, "Accept-Encoding")]
  /\ pc' = "roundtrip"
  /\ UNCHANGED <<client, hostMunged, host, resp, err, w, calls, seen, deferred, closed>>

\* resp, err := h.transport.RoundTrip(req): a response and no error, or an
\* error and no response
RoundTrip ==
  /\ pc = "roundtrip"
  /\ calls' = calls + 1
  /\ seen' = Append(seen, req)
  /\ \/ \E r \in UpstreamResponses(req.Host) : resp' = <<r>> /\ err' = <<>>
     \/ \E e \in TransportErrors : resp' = <<>> /\ err' = <<e>>
  /\ pc' = "checkerr"
  /\ UNCHANGED <<client, req, hostMunged, host, w, deferred, closed>>

\* http.Error: Content-Type and X-Content-Type-Options are set, the status
\* is written and the message is printed with a line feed after it
Error(rw, msg, code) ==
  [Header |-> Set(Set(rw.Header, "Content-Type", textPlainUtf8),
                  "X-Content-Type-Options", nosniff),
   Status |-> code,
   Body |-> rw.Body \o msg \o <<"\n">>,
   log |-> rw.log \o <<"status", "message">>]

\* an error reply with another status
FailInternal ==
  /\ pc = "checkerr"
  /\ err # <<>>
  /\ w' = Error(w, err[1], 500)
  /\ pc' = "done"
  /\ UNCHANGED <<client, req, hostMunged, host, resp, err, calls, seen, deferred, closed>>

\* if err != nil { http.Error(w, err.Error(), http.StatusServiceUnavailable); return }
Fail ==
  /\ pc = "checkerr"
  /\ err # <<>>
  /\ w' = Error(w, err[1], StatusServiceUnavailable)
  /\ pc' = "done"
  /\ UNCHANGED <<client, req, hostMunged, host, resp, err, calls, seen, deferred, closed>>

\* defer resp.Body.Close()
DeferClose ==
  /\ pc = "checkerr"
  /\ err = <<>>
  /\ deferred' = TRUE
  /\ pc' = "copyheader"
  /\ UNCHANGED <<client, req, hostMunged, host, resp, err, w, calls, seen, closed>>

\* copyAndReplaceHeader: every value of every name of src is added to dst,
\* rewritten; the order in which the names are visited does not show
copyAndReplaceHeader(dst, src, h, hm) ==
  [k \in RespNames |->
     dst[k] \o [i \in 1..Len(src[k]) |-> replaceMunged(src[k][i], h, hm)]]

\* copyAndReplaceHeader(w.Header(), resp.Header, host, hostMunged)
CopyHeader ==
  /\ pc = "copyheader"
  /\ w' = [w EXCEPT !.Header = copyAndReplaceHeader(@, resp[1].Header, host, hostMunged),
                    !.log = Append(@, "header")]
  /\ pc' = "writeheader"
  /\ UNCHANGED <<client, req, hostMunged, host, resp, err, calls, seen, deferred, closed>>

\* w.WriteHeader(resp.StatusCode)
WriteHeader ==
  /\ pc = "writeheader"
  /\ w' = [w EXCEPT !.Status = resp[1].StatusCode, !.log = Append(@, "status")]
  /\ pc' = "body"
  /\ UNCHANGED <<client, req, hostMunged, host, resp, err, calls, seen, deferred, closed>>

\* the test of the branch: strings.HasPrefix(resp.Header.Get("Content-Type"), "text/html")
IsHTML(r) == HasPrefix(Get(r.Header, "Content-Type"), textHtml)

\* copyAndReplace: the whole body is read, rewritten and written
copyAndReplace(rw, body, h, hm) ==
  [rw EXCEPT !.Body = @ \o replaceMunged(body, h, hm), !.log = Append(@, "rewrite")]

\* io.Copy(w, resp.Body)
Copy(rw, body) == [rw EXCEPT !.Body = @ \o body, !.log = Append(@, "copy")]

\* a handler that rewrites the body whatever its type
RewriteAnyBody ==
  /\ pc = "body"
  /\ w' = copyAndReplace(w, resp[1].Body, host, hostMunged)
  /\ pc' = "return"
  /\ UNCHANGED <<client, req, hostMunged, host, resp, err, calls, seen, deferred, closed>>

\* if HasPrefix(...) { copyAndReplace(w, resp.Body, host, hostMunged) }
\* else { io.Copy(w, resp.Body) }
CopyBody ==
  /\ pc = "body"
  /\ w' = IF IsHTML(resp[1])
            THEN copyAndReplace(w, resp[1].Body, host, hostMunged)
            ELSE Copy(w, resp[1].Body)
  /\ pc' = "return"
  /\ UNCHANGED <<client, req, hostMunged, host, resp, err, calls, seen, deferred, closed>>

\* a handler that closes the body only behind the stream copy
ReturnClosingStreamed ==
  /\ pc = "return"
  /\ closed' = IF deferred /\ ~IsHTML(resp[1]) THEN closed + 1 ELSE closed
  /\ pc' = "done"
  /\ UNCHANGED <<client, req, hostMunged, host, resp, err, w, calls, seen, deferred>>

\* the return of the handler: the deferred resp.Body.Close() runs
Return ==
  /\ pc = "return"
  /\ closed' = IF deferred THEN closed + 1 ELSE closed
  /\ pc' = "done"
  /\ UNCHANGED <<client, req, hostMunged, host, resp, err, w, calls, seen, deferred>>

Next ==
  \/ Resolve
  \/ StripAcceptEncoding
  \/ RoundTrip
  \/ Fail
  \/ DeferClose
  \/ CopyHeader
  \/ WriteHeader
  \/ CopyBody
  \/ Return

Spec == Init /\ [][Next]_vars

\* the codec alone: demunge applied by the handler's first step to every
\* hostname of CodecHosts
CodecInit ==
  /\ req \in {r \in Requests(CodecHosts) :
                r.URL.Scheme = "" /\ r.Header["Accept-Encoding"] = <<>>}
  /\ client = req
  /\ InitHandler

CodecNext == Resolve

CodecSpec == CodecInit /\ [][CodecNext]_vars

----------------------------------------------------------------------------
(* The properties of the codec, stated on the handler's locals once its    *)
(* first step has run: host = demunge(hostMunged).                         *)

Resolved == pc # "start"

\* the canonical string [D-E,H]
Canonical(D, E, H) == <<"[">> \o D \o <<"-">> \o E \o <<",">> \o H \o <<"]">>

\* the wire format: D-E-H with ':' written '_' in E, followed by sfx
Munge(D, E, H, sfx) ==
  D \o <<"-">> \o ReplaceAllChar(E, ":", "_") \o <<"-">> \o H \o sfx

\* D is a domainID: digits
IsDomainID(D) == D # <<>> /\ \A k \in 1..Len(D) : D[k] \in Digit

\* E is an entity segment of the wire format: hex digits and underscores
IsMungedEntity(E) ==
  E # <<>> /\ \A k \in 1..Len(E) : E[k] \in Digit \cup HexLetter \cup {"_"}

\* h is accepted by the structured pattern ^(digits)-(hex/underscore)-(rest)$
IsStructured(h) ==
  \E i, j \in 1..Len(h) :
    /\ i < j
    /\ h[i] = "-"
    /\ h[j] = "-"
    /\ IsDomainID(SubSeq(h, 1, i - 1))
    /\ IsMungedEntity(SubSeq(h, i + 1, j - 1))

\* C1: Demunge of a munged hostname D-E-H.scion that carries the marker is
\* the bracketed canonical address [D-E',H] without the marker, E' being E
\* with ':' for every '_' (H a host token that does not itself end in the
\* marker); so 1-ff00_0_110-192.0.2.1.scion gives [1-ff00:0:110,192.0.2.1].
C1_DemungeDropsMarker ==
  Resolved =>
    \A i, j \in 1..Len(hostMunged) :
      LET D == SubSeq(hostMunged, 1, i - 1)
          E == SubSeq(hostMunged, i + 1, j - 1)
          H == SubSeq(hostMunged, j + 1, Len(hostMunged) - Len(scionSuffix))
      IN  ( /\ i < j
            /\ j + Len(scionSuffix) <= Len(hostMunged)
            /\ IsDomainID(D)
            /\ IsMungedEntity(E)
            /\ H # <<>>
            /\ ~HasSuffix(H, scionSuffix)
            /\ hostMunged = D \o <<"-">> \o E \o <<"-">> \o H \o scionSuffix )
          => host = Canonical(D, ReplaceAllChar(E, "_", ":"), H)

\* C2: round trip: the canonical address [D-E,H] (D digits, E hex digits and
\* colons, H not itself ending in the marker), munged with or without the
\* marker and then demunged, is [D-E,H] again.
C2_RoundTrip ==
  Resolved =>
    \A i, j \in 1..Len(hostMunged) : \A sfx \in {<<>>, scionSuffix} :
      LET D == SubSeq(hostMunged, 1, i - 1)
          E == ReplaceAllChar(SubSeq(hostMunged, i + 1, j - 1), "_", ":")
          H == SubSeq(hostMunged, j + 1, Len(hostMunged) - Len(sfx))
      IN  ( /\ i < j
            /\ j + Len(sfx) <= Len(hostMunged)
            /\ IsDomainID(D)
            /\ IsMungedEntity(SubSeq(hostMunged, i + 1, j - 1))
            /\ H # <<>>
            /\ ~HasSuffix(H, scionSuffix)
            /\ hostMunged = Munge(D, E, H, sfx) )
          => host = Canonical(D, E, H)

\* C3: pass-through: demunge never fails, and for a hostname the structured
\* pattern does not accept it returns the hostname without its last ".scion"
\* when it ends with one, and the hostname itself otherwise.
C3_PassThrough ==
  /\ pc = "start" => ENABLED Resolve
  /\ (Resolved /\ ~IsStructured(hostMunged)) =>
       IF HasSuffix(hostMunged, scionSuffix)
         THEN hostMunged = host \o scionSuffix
         ELSE host = hostMunged

\* a plain hostname with two markers has lost exactly one
C3_Witness ==
  /\ Resolved
  /\ ~IsStructured(hostMunged)
  /\ hostMunged = <<"a", "-", "g">> \o scionSuffix \o scionSuffix
  /\ host = <<"a", "-", "g">> \o scionSuffix

----------------------------------------------------------------------------
(* The properties of the handler.                                          *)

\* the transport returned a response
Succeeded == resp # <<>> /\ pc \notin {"start", "strip", "roundtrip"}

\* the transport returned an error
Failed == err # <<>> /\ pc \notin {"start", "strip", "roundtrip"}

\* does p occur somewhere in s
Contains(s, p) == \E i \in 1..Len(s) : HasAt(s, i, p)

RECURSIVE Substitute(_, _, _, _)
\* s from position i on, with every occurrence of http://h and of https://h,
\* taken from left to right, replaced by the text r and every other character
\* kept
Substitute(s, i, h, r) ==
  IF i > Len(s) THEN <<>>
  ELSE IF HasAt(s, i, httpsScheme \o h)
    THEN r \o Substitute(s, i + Len(httpsScheme) + Len(h), h, r)
  ELSE IF HasAt(s, i, httpScheme \o h)
    THEN r \o Substitute(s, i + Len(httpScheme) + Len(h), h, r)
  ELSE <<s[i]>> \o Substitute(s, i + 1, h, r)

\* the substitution of the claims: http(s)://<host> becomes http://<hostMunged>,
\* hostMunged being the Host the client sent and host its demunged form
Rewritten(s) ==
  Substitute(s, 1, demunge(client.Host), httpScheme \o client.Host)

\* the headers of a reply to which no upstream header was copied: the two
\* that the error reply itself sets
ErrorReplyHeader ==
  [k \in RespNames |->
     CASE k = "Content-Type" -> <<textPlainUtf8>>
       [] k = "X-Content-Type-Options" -> <<nosniff>>
       [] OTHER -> <<>>]

\* C4: when the transport returns an error the client receives status 503
\* with the error's message as the body, no upstream header is rewritten or
\* copied, no body is rewritten or copied, and the transport was invoked
\* exactly once.
C4_ErrorShortCircuits ==
  (pc = "done" /\ Failed) =>
    /\ w.Status = StatusServiceUnavailable
    /\ w.Body = err[1]
    /\ w.Header = ErrorReplyHeader
    /\ w.log = <<"status", "message">>
    /\ calls = 1

\* C4, amended: as C4, the body being the error's message followed by one
\* line feed.
C4_ErrorShortCircuitsNewline ==
  (pc = "done" /\ Failed) =>
    /\ w.Status = StatusServiceUnavailable
    /\ w.Body = err[1] \o <<"\n">>
    /\ w.Header = ErrorReplyHeader
    /\ w.log = <<"status", "message">>
    /\ calls = 1

\* the handler is done after the transport failed with "no path"
C4_Witness ==
  /\ pc = "done"
  /\ Failed
  /\ err = <<<<"n", "o", " ", "p", "a", "t", "h">>>>
  /\ w.Status = 503
  /\ calls = 1

\* C5: for a successful response whose Content-Type does not start with
\* text/html (or is absent) the body written to the client is the upstream
\* body, byte for byte, also when it contains http(s)://<host>.
C5_OtherBodiesVerbatim ==
  (Succeeded /\ pc \in {"return", "done"}
     /\ ~HasPrefix(Get(resp[1].Header, "Content-Type"), textHtml)) =>
    w.Body = resp[1].Body

\* a JSON body holding https://<host> has been delivered untouched
C5_Witness ==
  /\ pc = "done"
  /\ Succeeded
  /\ resp[1].Header["Content-Type"] = <<applicationJson>>
  /\ Contains(resp[1].Body, httpsScheme \o host)
  /\ host # hostMunged
  /\ w.Body = resp[1].Body
  /\ w.log = <<"header", "status", "copy">>

\* C6: on a successful response every value of every upstream header reaches
\* the client under the same name, in the same number and order, with every
\* occurrence of http://<host> and https://<host> replaced by
\* http://<hostMunged> and every other byte unchanged.
C6_HeadersRewritten ==
  (Succeeded /\ pc \notin {"checkerr", "copyheader"}) =>
    \A k \in RespNames :
      /\ Len(w.Header[k]) = Len(resp[1].Header[k])
      /\ \A i \in 1..Len(resp[1].Header[k]) :
           w.Header[k][i] = Rewritten(resp[1].Header[k][i])

\* C7: for a successful response whose Content-Type starts with text/html the
\* body written is the whole upstream body with the substitution of the
\* headers applied, and it is written after the headers were copied and the
\* status was written.
C7_HtmlBodyRewritten ==
  (Succeeded /\ pc \in {"return", "done"}
     /\ HasPrefix(Get(resp[1].Header, "Content-Type"), textHtml)) =>
    /\ w.Body = Rewritten(resp[1].Body)
    /\ w.log = <<"header", "status", "rewrite">>

\* C8: whenever the transport is invoked the request has no Accept-Encoding
\* header, its scheme is https, and its Host and URL host are Demunge of the
\* Host the client sent.
C8_TransportSeesResolvedRequest ==
  \A i \in 1..Len(seen) :
    /\ seen[i].Header["Accept-Encoding"] = <<>>
    /\ seen[i].URL.Scheme = "https"
    /\ seen[i].Host = demunge(client.Host)
    /\ seen[i].URL.Host = demunge(client.Host)

\* the transport was called for a client that sent Accept-Encoding and the
\* munged name of a structured address
C8_Witness ==
  /\ Len(seen) = 1
  /\ client.Header["Accept-Encoding"] = <<gzip>>
  /\ client.Host = <<"1", "-", "f", "_", "0", "-", "h">>
  /\ seen[1].Host = <<"[", "1", "-", "f", ":", "0", ",", "h", "]">>
  /\ seen[1].URL.Scheme = "https"

\* C9: when the handler returns, every body the transport handed back has
\* been closed exactly once, on the buffering branch and on the streaming
\* branch, and on the error path; no body is closed before the handler is
\* through with it.
C9_BodyClosedOnce ==
  /\ pc = "done" => closed = Len(resp)
  /\ pc # "done" => closed = 0

\* the handler returned behind the buffering branch and the body is closed
C9_Witness ==
  /\ pc = "done"
  /\ Succeeded
  /\ w.log = <<"header", "status", "rewrite">>
  /\ closed = 1

\* C10: for a successful response a Content-Length forwarded to the client is
\* the number of body bytes the handler writes.
C10_ContentLengthMatchesBody ==
  (pc = "done" /\ Succeeded) =>
    \A i \in 1..Len(w.Header["Content-Length"]) :
      w.Header["Content-Length"][i] = Itoa(Len(w.Body))

====
